---- MODULE Spec2Model ----
(***************************************************************************)
(* Model of the file-system bridge in bridge/io.go: Writefile, Readfile,   *)
(* Copyfile, UnzipZIPFile and UnzipGZFile over an abstract file system.    *)
(*                                                                         *)
(* Paths are sequences of one-character strings, so that prefix tests and  *)
(* normalisation work on characters exactly as strings.HasPrefix and       *)
(* filepath.Clean do.  File contents and result messages are Go strings,   *)
(* that is sequences of bytes (0..255).                                    *)
(***************************************************************************)
EXTENDS Integers, Sequences, FiniteSets, TLC

(***************************************************************************)
(* Bounds of the model.                                                    *)
(***************************************************************************)
MaxEntries == 2      \* entries per ZIP archive
MaxLen == 3          \* length of the byte sequences written in Binary mode
MaxCalls == 1        \* archive operations per behaviour

(***************************************************************************)
(* Strings of bridge/io.go and the messages of the errors it passes on.    *)
(***************************************************************************)
Binary == "Binary"
Text == "Text"

\* "Success"
Success == <<83, 117, 99, 99, 101, 115, 115>>
\* "invalid file path"
InvalidFilePath ==
  <<105, 110, 118, 97, 108, 105, 100, 32, 102, 105, 108, 101, 32, 112, 97, 116, 104>>
\* Underlying errors, by a short mnemonic each:
\* "ENOENT", "ENOTDIR", "EISDIR"
ErrNotExist == <<69, 78, 79, 69, 78, 84>>
ErrNotDir == <<69, 78, 79, 84, 68, 73, 82>>
ErrIsDir == <<69, 73, 83, 68, 73, 82>>
\* "b64" (base64.CorruptInputError), "zip" (zip.ErrFormat), "zalg"
\* (zip.ErrAlgorithm), "zsum" (zip.ErrChecksum), "ghdr" (gzip.ErrHeader), "gsum"
\* (gzip.ErrChecksum)
ErrBase64 == <<98, 54, 52>>
ErrZipFormat == <<122, 105, 112>>
ErrZipAlgorithm == <<122, 97, 108, 103>>
ErrZipChecksum == <<122, 115, 117, 109>>
ErrGzipHeader == <<103, 104, 100, 114>>
ErrGzipChecksum == <<103, 115, 117, 109>>

(***************************************************************************)
(* path/filepath on a Unix build: os.PathSeparator is '/'.                 *)
(***************************************************************************)
PathSeparator == "/"

Last(s) == s[Len(s)]
Front(s) == SubSeq(s, 1, Len(s) - 1)

\* strings.HasPrefix
HasPrefix(s, prefix) ==
  /\ Len(prefix) <= Len(s)
  /\ SubSeq(s, 1, Len(prefix)) = prefix

\* The elements of a path between separators, empty ones included.
RECURSIVE Split(_)
Split(p) ==
  IF \A i \in 1..Len(p) : p[i] # PathSeparator
  THEN <<p>>
  ELSE LET i == CHOOSE k \in 1..Len(p) :
                  /\ p[k] = PathSeparator
                  /\ \A j \in 1..(k - 1) : p[j] # PathSeparator
       IN <<SubSeq(p, 1, i - 1)>> \o Split(SubSeq(p, i + 1, Len(p)))

RECURSIVE JoinSegs(_)
JoinSegs(segs) ==
  IF segs = <<>> THEN <<>>
  ELSE IF Len(segs) = 1 THEN segs[1]
  ELSE segs[1] \o <<PathSeparator>> \o JoinSegs(Tail(segs))

\* The element loop of filepath.Clean: "" and "." are dropped, ".." removes the
\* element before it, or stays when there is none and the path is not rooted.
RECURSIVE CleanSegs(_, _, _)
CleanSegs(segs, out, rooted) ==
  IF segs = <<>> THEN out
  ELSE LET s == Head(segs)
           next ==
             IF s = <<>> \/ s = <<".">> THEN out
             ELSE IF s = <<".", ".">>
               THEN IF out # <<>> /\ Last(out) # <<".", ".">> THEN Front(out)
                    ELSE IF rooted THEN out
                    ELSE Append(out, s)
             ELSE Append(out, s)
       IN CleanSegs(Tail(segs), next, rooted)

IsAbs(p) == p # <<>> /\ p[1] = PathSeparator

\* filepath.Clean
Clean(p) ==
  IF p = <<>> THEN <<".">>
  ELSE LET rooted == IsAbs(p)
           body == JoinSegs(CleanSegs(Split(p), <<>>, rooted))
       IN IF rooted THEN <<PathSeparator>> \o body
          ELSE IF body = <<>> THEN <<".">>
          ELSE body

\* filepath.Join of two elements: empty elements are ignored, the rest is cleaned.
Join(a, b) ==
  IF a = <<>> /\ b = <<>> THEN <<>>
  ELSE IF a = <<>> THEN Clean(b)
  ELSE IF b = <<>> THEN Clean(a)
  ELSE Clean(a \o <<PathSeparator>> \o b)

\* filepath.Dir: everything up to the last separator, cleaned.
Dir(p) ==
  LET seps == {i \in 1..Len(p) : p[i] = PathSeparator}
  IN IF seps = {} THEN <<".">>
     ELSE LET i == CHOOSE k \in seps : \A j \in seps : j <= k
          IN Clean(SubSeq(p, 1, i))

\* The base directory the application resolves relative paths against.
BasePath == <<"/">>

\* GetPath of the bridge package: absolute and normalised.
GetPath(p) == IF IsAbs(p) THEN Clean(p) ELSE Join(BasePath, p)

(***************************************************************************)
(* The file system: a function from the paths that exist to their nodes.   *)
(* Every path in it is absolute and clean, and the parent of a node is a   *)
(* directory.  A call of the os package fails when the state of the file   *)
(* system makes it fail: a missing file, a file where a directory is       *)
(* needed, a directory where a file is.  Permissions and full disks are    *)
(* left out.                                                               *)
(***************************************************************************)
Root == <<PathSeparator>>
DirNode == [kind |-> "dir", data |-> <<>>]
FileNode(b) == [kind |-> "file", data |-> b]

IsDirAt(f, p) == p \in DOMAIN f /\ f[p].kind = "dir"
IsFileAt(f, p) == p \in DOMAIN f /\ f[p].kind = "file"

\* The path and its ancestors up to the root.
RECURSIVE PathChain(_)
PathChain(p) == IF p = Root \/ ~IsAbs(p) THEN {p} ELSE {p} \cup PathChain(Dir(p))

\* The error of looking up a path that does not exist.
LookupErr(f, p) ==
  IF \E q \in PathChain(p) : IsFileAt(f, q) THEN ErrNotDir ELSE ErrNotExist

\* os.MkdirAll: nothing to do for a directory, an error for a file, otherwise
\* the parent first and then the directory itself.
RECURSIVE MkdirAll(_, _)
MkdirAll(f, p) ==
  IF p \in DOMAIN f
  THEN IF f[p].kind = "dir"
       THEN [ok |-> TRUE, fs |-> f, err |-> <<>>]
       ELSE [ok |-> FALSE, fs |-> f, err |-> ErrNotDir]
  ELSE LET r == MkdirAll(f, Dir(p))
       IN IF ~r.ok THEN r
          ELSE [ok |-> TRUE, fs |-> (p :> DirNode) @@ r.fs, err |-> <<>>]

\* os.OpenFile with O_WRONLY|O_CREATE|O_TRUNC, which is also os.Create and the
\* open of os.WriteFile: the file exists and is empty afterwards.
OpenTrunc(f, p) ==
  IF IsDirAt(f, p) THEN [ok |-> FALSE, fs |-> f, err |-> ErrIsDir]
  ELSE IF ~IsDirAt(f, Dir(p)) THEN [ok |-> FALSE, fs |-> f, err |-> LookupErr(f, Dir(p))]
  ELSE [ok |-> TRUE, fs |-> (p :> FileNode(<<>>)) @@ f, err |-> <<>>]

\* WriteBytes with the bytes lost.
WriteBytesDrop(f, p, b) == f

\* Write on an open file: the bytes are appended.
WriteBytes(f, p, b) == (p :> FileNode(f[p].data \o b)) @@ f

\* os.WriteFile
WriteFile(f, p, b) ==
  LET o == OpenTrunc(f, p)
  IN IF ~o.ok THEN o ELSE [ok |-> TRUE, fs |-> WriteBytes(o.fs, p, b), err |-> <<>>]

\* os.Open: a directory opens as well as a file.
Open(f, p) ==
  IF p \in DOMAIN f THEN [ok |-> TRUE, err |-> <<>>]
  ELSE [ok |-> FALSE, err |-> LookupErr(f, p)]

\* Reading an open file to its end: a directory cannot be read.
ReadAll(f, p) ==
  IF IsDirAt(f, p) THEN [ok |-> FALSE, data |-> <<>>, err |-> ErrIsDir]
  ELSE [ok |-> TRUE, data |-> f[p].data, err |-> <<>>]

\* os.ReadFile
ReadFile(f, p) ==
  IF ~Open(f, p).ok THEN [ok |-> FALSE, data |-> <<>>, err |-> Open(f, p).err]
  ELSE ReadAll(f, p)

(***************************************************************************)
(* encoding/base64, StdEncoding: the standard alphabet, padded with '='.   *)
(***************************************************************************)
\* The character of a six-bit value: A-Z, a-z, 0-9, '+', '/'.
B64Char(v) ==
  IF v < 26 THEN 65 + v
  ELSE IF v < 52 THEN 97 + (v - 26)
  ELSE IF v < 62 THEN 48 + (v - 52)
  ELSE IF v = 62 THEN 43
  ELSE 47

\* The six-bit value of a character, -1 for a character outside the alphabet.
B64Value(c) ==
  IF c >= 65 /\ c <= 90 THEN c - 65
  ELSE IF c >= 97 /\ c <= 122 THEN c - 97 + 26
  ELSE IF c >= 48 /\ c <= 57 THEN c - 48 + 52
  ELSE IF c = 43 THEN 62
  ELSE IF c = 47 THEN 63
  ELSE -1

\* '='
B64Pad == 61

\* EncodeToString: three bytes make four characters; one or two bytes left over
\* make two or three characters and the padding.
RECURSIVE EncodeToString(_)
EncodeToString(b) ==
  IF b = <<>> THEN <<>>
  ELSE IF Len(b) = 1
    THEN <<B64Char(b[1] \div 4), B64Char((b[1] % 4) * 16), B64Pad, B64Pad>>
  ELSE IF Len(b) = 2
    THEN <<B64Char(b[1] \div 4), B64Char((b[1] % 4) * 16 + b[2] \div 16),
           B64Char((b[2] % 16) * 4), B64Pad>>
  ELSE <<B64Char(b[1] \div 4), B64Char((b[1] % 4) * 16 + b[2] \div 16),
         B64Char((b[2] % 16) * 4 + b[3] \div 64), B64Char(b[3] % 64)>>
       \o EncodeToString(SubSeq(b, 4, Len(b)))

\* The input of the decoder without the '\r' and '\n' it skips.
StripNewlines(s) == SelectSeq(s, LAMBDA c : c # 10 /\ c # 13)

\* The quanta of DecodeString: a group of four characters gives three bytes; the
\* last group may end in "=" (two bytes) or "==" (one byte), and the bits a
\* padded group leaves over are not checked (the encoding is not Strict).
RECURSIVE DecodeQuanta(_)
DecodeQuanta(s) ==
  IF s = <<>> THEN [ok |-> TRUE, data |-> <<>>]
  ELSE IF Len(s) < 4 THEN [ok |-> FALSE, data |-> <<>>]
  ELSE LET v1 == B64Value(s[1])
           v2 == B64Value(s[2])
           v3 == B64Value(s[3])
           v4 == B64Value(s[4])
           last == Len(s) = 4
           rest == DecodeQuanta(SubSeq(s, 5, Len(s)))
       IN IF v1 < 0 \/ v2 < 0 THEN [ok |-> FALSE, data |-> <<>>]
          ELSE IF v3 >= 0 /\ v4 >= 0
            THEN IF ~rest.ok THEN rest
                 ELSE [ok |-> TRUE,
                       data |-> <<v1 * 4 + v2 \div 16, (v2 % 16) * 16 + v3 \div 4,
                                  (v3 % 4) * 64 + v4>> \o rest.data]
          ELSE IF last /\ v3 >= 0 /\ s[4] = B64Pad
            THEN [ok |-> TRUE,
                  data |-> <<v1 * 4 + v2 \div 16, (v2 % 16) * 16 + v3 \div 4>>]
          ELSE IF last /\ s[3] = B64Pad /\ s[4] = B64Pad
            THEN [ok |-> TRUE, data |-> <<v1 * 4 + v2 \div 16>>]
          ELSE [ok |-> FALSE, data |-> <<>>]

\* DecodeString
DecodeString(s) == DecodeQuanta(StripNewlines(s))

(***************************************************************************)
(* archive/zip and compress/gzip, by a small container format each.        *)
(*                                                                         *)
(* A ZIP file is the signature "PK" followed by one byte per entry, the    *)
(* number of the entry in EntryPool.  An entry has a name, a directory     *)
(* flag, its data and the fault its stream has: "open" (the entry cannot   *)
(* be opened, as with an unknown compression method) or "copy" (the data   *)
(* fails its checksum once it has been read).                              *)
(*                                                                         *)
(* A gzip file is the magic bytes 31, 139, the plain bytes and one byte of *)
(* checksum, the sum of the plain bytes modulo 256.                        *)
(***************************************************************************)
EntryPool ==
  << [Name |-> <<"a", "/">>, IsDir |-> TRUE, data |-> <<>>, fault |-> "none"],
     [Name |-> <<"a", "/", "b">>, IsDir |-> FALSE, data |-> <<1>>, fault |-> "none"],
     [Name |-> <<"a", "/", "b">>, IsDir |-> FALSE, data |-> <<2, 3>>, fault |-> "none"],
     [Name |-> <<"a">>, IsDir |-> FALSE, data |-> <<4>>, fault |-> "none"],
     [Name |-> <<".", ".", "/", "o", "x", "/", "e">>, IsDir |-> FALSE, data |-> <<5>>,
      fault |-> "none"],
     [Name |-> <<"a", "/", ".", ".">>, IsDir |-> TRUE, data |-> <<>>, fault |-> "none"],
     [Name |-> <<"c">>, IsDir |-> FALSE, data |-> <<6, 7>>, fault |-> "open"],
     [Name |-> <<"c">>, IsDir |-> FALSE, data |-> <<6, 7>>, fault |-> "copy"] >>

ZipSignature == <<80, 75>>

\* zip.OpenReader: the file is opened and its directory parsed.
ZipOpenReader(f, p) ==
  IF ~Open(f, p).ok THEN [ok |-> FALSE, File |-> <<>>, err |-> Open(f, p).err]
  ELSE IF ~ReadAll(f, p).ok THEN [ok |-> FALSE, File |-> <<>>, err |-> ReadAll(f, p).err]
  ELSE LET d == f[p].data
       IN IF /\ HasPrefix(d, ZipSignature)
             /\ \A i \in 3..Len(d) : d[i] \in 1..Len(EntryPool)
          THEN [ok |-> TRUE, File |-> [i \in 1..(Len(d) - 2) |-> EntryPool[d[i + 2]]],
                err |-> <<>>]
          ELSE [ok |-> FALSE, File |-> <<>>, err |-> ErrZipFormat]

GzipMagic == <<31, 139>>

RECURSIVE Sum(_)
Sum(b) == IF b = <<>> THEN 0 ELSE b[1] + Sum(Tail(b))

\* gzip.NewReader reads the header.
GzipNewReader(f, p) ==
  IF ~ReadAll(f, p).ok THEN [ok |-> FALSE, err |-> ReadAll(f, p).err]
  ELSE IF HasPrefix(f[p].data, GzipMagic) THEN [ok |-> TRUE, err |-> <<>>]
  ELSE [ok |-> FALSE, err |-> ErrGzipHeader]

\* Reading the gzip reader to its end: the plain bytes come out before the
\* checksum is compared.
GzipReadAll(f, p) ==
  LET d == f[p].data
      plain == SubSeq(d, 3, Len(d) - 1)
  IN IF Len(d) >= 3 /\ d[Len(d)] = Sum(plain) % 256
     THEN [ok |-> TRUE, data |-> plain, err |-> <<>>]
     ELSE [ok |-> FALSE, data |-> plain, err |-> ErrGzipChecksum]

(***************************************************************************)
(* The inputs of the operations.                                           *)
(***************************************************************************)
SeqsUpTo(S, n) == UNION {[1..k -> S] : k \in 0..n}

ZipFiles == {ZipSignature \o s : s \in SeqsUpTo(1..Len(EntryPool), MaxEntries)}

\* Files of the initial file system: /z a ZIP archive, /g a gzip file, /c a gzip
\* file with a wrong checksum, /t a plain file.
PathZ == <<"/", "z">>
PathG == <<"/", "g">>
PathC == <<"/", "c">>
PathT == <<"/", "t">>

\* Paths as callers give them: "z", "/t", "/n" (missing), "o/", "/", "/k".
ZipInputs == {<<"z">>, PathT}
ZipOutputs == {<<"o", "/">>, Root, PathT}
GzInputs == {PathG, PathC, PathT, <<"/", "n">>}
GzOutputs == {<<"/", "k">>, PathT, Root}
CopySources == {PathT, <<"/", "n">>, Root}
CopyTargets == {<<"/", "k">>, Root}

ByteVals == {77, 255}
ByteSeqs == SeqsUpTo(ByteVals, MaxLen)

\* Binary contents: the encodings of ByteSeqs, and "!" (not in the alphabet),
\* "TQ=" (a short group), "TR==" and "TQ==\n" (accepted, though no encoder
\* writes them).
Base64Contents == {EncodeToString(b) : b \in ByteSeqs}
BinaryContents ==
  Base64Contents \cup {<<33>>, <<84, 81, 61>>, <<84, 82, 61, 61>>, <<84, 81, 61, 61, 10>>}
\* Text contents: "", "Hi", bytes that are no UTF-8, and a base64 string.
TextContents == {<<>>, <<72, 105>>, <<255, 10>>, <<84, 81, 61, 61>>}
Modes == {Text, Binary, "", "Base64"}
ContentsFor(mode) ==
  IF mode = Binary THEN BinaryContents
  ELSE IF mode = Text THEN TextContents
  ELSE {<<72, 105>>}

\* Paths of Writefile and Readfile: "d/w" (in a directory to be made), "/t/f"
\* (under a file), "/" (a directory).
FilePaths == {<<"d", "/", "w">>, <<"/", "t", "/", "f">>, Root}

(***************************************************************************)
(* The state.                                                              *)
(***************************************************************************)
VARIABLES
  fs,         \* the file system
  pc,         \* "idle", or the place the operation in progress has reached
  call,       \* the operation in progress or last finished, with its arguments
  result,     \* the FlagResult of the last finished operation
  archive,    \* archive.File of UnzipZIPFile
  idx,        \* the position of the range loop in archive.File
  handles,    \* the handles the operation has opened, open or closed
  defers,     \* the handles whose Close is deferred
  calls,      \* the number of archive operations started
  fs0,        \* history: the file system when the operation started
  touched,    \* history: the paths the operation created, truncated or wrote
  processed,  \* history: the entries the range loop has taken, in order
  ioFail,     \* history: some file-system or stream call of the operation failed
  lastWrite   \* history: per path, the last successful Writefile

vars ==
  <<fs, pc, call, result, archive, idx, handles, defers, calls, fs0, touched,
    processed, ioFail, lastWrite>>

NoCall == [op |-> "none", path |-> <<>>, path2 |-> <<>>, content |-> <<>>, mode |-> ""]
NoResult == [ok |-> FALSE, msg |-> <<>>]
FlagResult(ok, msg) == [ok |-> ok, msg |-> msg]

InitFS(zip) ==
  (Root :> DirNode) @@ (PathZ :> FileNode(zip))
    @@ (PathG :> FileNode(GzipMagic \o <<7, 8, 15>>))
    @@ (PathC :> FileNode(GzipMagic \o <<7, 8, 0>>))
    @@ (PathT :> FileNode(<<9>>))

Init ==
  /\ fs \in {InitFS(zip) : zip \in ZipFiles}
  /\ pc = "idle"
  /\ call = NoCall
  /\ result = NoResult
  /\ archive = <<>>
  /\ idx = 0
  /\ handles = <<>>
  /\ defers = <<>>
  /\ calls = 0
  /\ fs0 = fs
  /\ touched = {}
  /\ processed = <<>>
  /\ ioFail = FALSE
  /\ lastWrite = <<>>

(***************************************************************************)
(* Handles: os.Open, os.Create, os.OpenFile, zip.OpenReader, File.Open and *)
(* gzip.NewReader each give one; a deferred Close runs when the function   *)
(* returns.                                                                *)
(***************************************************************************)
OpenHandle(hs, kind, p) == Append(hs, [kind |-> kind, path |-> p, open |-> TRUE])

Range(s) == {s[i] : i \in DOMAIN s}

\* RunDefers with only the last deferred Close run.
RunDefersLast(hs, ds) ==
  [i \in DOMAIN hs |->
     IF ds # <<>> /\ i = ds[Len(ds)] THEN [hs[i] EXCEPT !.open = FALSE] ELSE hs[i]]

\* The deferred calls of a returning function: each deferred Close is run.
RunDefers(hs, ds) ==
  [i \in DOMAIN hs |-> IF i \in Range(ds) THEN [hs[i] EXCEPT !.open = FALSE] ELSE hs[i]]

OpenHandles(kind) == {i \in DOMAIN handles : handles[i].open /\ handles[i].kind = kind}

\* The start of an operation: a fresh frame, and the history of the call reset.
Begin(c) ==
  /\ pc = "idle"
  /\ calls < MaxCalls
  /\ calls' = calls + 1
  /\ call' = c
  /\ result' = NoResult
  /\ fs0' = fs
  /\ touched' = {}
  /\ processed' = <<>>
  /\ UNCHANGED lastWrite

\* return FlagResult{ok, msg}: the deferred closes run and the caller has the result.
Return(ok, msg) ==
  /\ result' = FlagResult(ok, msg)
  /\ handles' = RunDefers(handles, defers)
  /\ defers' = <<>>
  /\ pc' = "idle"

(***************************************************************************)
(* UnzipZIPFile                                                            *)
(***************************************************************************)
\* filePath := filepath.Join(output, f.Name)
FilePath == Join(call.path2, archive[idx].Name)

\* Contained with the separator left out of the prefix.
ContainedNoSep(filePath, output) == HasPrefix(filePath, Clean(output))

\* The test of line 181, as the condition to go on with the entry.
Contained(filePath, output) ==
  HasPrefix(filePath, Clean(output) \o <<PathSeparator>>)

\* Lines 169-176: the paths are resolved and the archive is opened.
\* (\E x \in {e} binds x to the value of e, computed once.)
UnzipZIPFile(path, output) ==
  \E p \in {GetPath(path)} :
  \E o \in {GetPath(output)} :
  \E zr \in {ZipOpenReader(fs, p)} :
     /\ Begin([op |-> "UnzipZIPFile", path |-> p, path2 |-> o, content |-> <<>>,
               mode |-> ""])
     /\ UNCHANGED fs
     /\ IF ~zr.ok
        THEN /\ result' = FlagResult(FALSE, zr.err)
             /\ pc' = "idle"
             /\ handles' = <<>>
             /\ defers' = <<>>
             /\ archive' = <<>>
             /\ idx' = 0
             /\ ioFail' = TRUE
        ELSE /\ pc' = "zip_loop"
             /\ handles' = OpenHandle(<<>>, "archive", p)
             /\ defers' = <<1>>
             /\ archive' = zr.File
             /\ idx' = 1
             /\ ioFail' = FALSE

\* Line 178 with no entry left, line 210.
ZipDone ==
  /\ pc = "zip_loop"
  /\ idx > Len(archive)
  /\ Return(TRUE, Success)
  /\ UNCHANGED <<fs, call, archive, idx, calls, fs0, touched, processed, ioFail, lastWrite>>

\* ZipCheck with an entry that fails the test skipped instead of ending the call.
ZipCheckSkip ==
  /\ pc = "zip_loop"
  /\ idx <= Len(archive)
  /\ processed' = Append(processed, idx)
  /\ IF ~HasPrefix(FilePath, Clean(call.path2) \o <<PathSeparator>>)
     THEN /\ idx' = idx + 1
          /\ pc' = "zip_loop"
     ELSE /\ pc' = "zip_entry"
          /\ UNCHANGED idx
  /\ UNCHANGED <<fs, call, result, archive, handles, defers, calls, fs0, touched, ioFail,
                 lastWrite>>

\* Lines 178-184: the next entry is taken, its path joined and tested.
ZipCheck ==
  /\ pc = "zip_loop"
  /\ idx <= Len(archive)
  /\ processed' = Append(processed, idx)
  /\ IF ~Contained(FilePath, call.path2)
     THEN Return(FALSE, InvalidFilePath)
     ELSE /\ pc' = "zip_entry"
          /\ UNCHANGED <<result, handles, defers>>
  /\ UNCHANGED <<fs, call, archive, idx, calls, fs0, touched, ioFail, lastWrite>>

\* Lines 185-188: a directory entry; the error of os.MkdirAll is dropped.
ZipDirEntry ==
  /\ pc = "zip_entry"
  /\ archive[idx].IsDir
  /\ \E r \in {MkdirAll(fs, FilePath)} :
        /\ fs' = r.fs
        /\ touched' = touched \cup (DOMAIN r.fs \ DOMAIN fs)
        /\ ioFail' = (ioFail \/ ~r.ok)
  /\ idx' = idx + 1
  /\ pc' = "zip_loop"
  /\ UNCHANGED <<call, result, archive, handles, defers, calls, fs0, processed, lastWrite>>

\* Lines 190-192: the directory of a file entry.
ZipMkdirParent ==
  /\ pc = "zip_entry"
  /\ ~archive[idx].IsDir
  /\ \E r \in {MkdirAll(fs, Dir(FilePath))} :
        /\ fs' = r.fs
        /\ touched' = touched \cup (DOMAIN r.fs \ DOMAIN fs)
        /\ ioFail' = (ioFail \/ ~r.ok)
        /\ IF ~r.ok
           THEN Return(FALSE, r.err)
           ELSE /\ pc' = "zip_create"
                /\ UNCHANGED <<result, handles, defers>>
  /\ UNCHANGED <<call, archive, idx, calls, fs0, processed, lastWrite>>

\* Lines 194-198: the destination file is created or truncated.
ZipOpenDst ==
  /\ pc = "zip_create"
  /\ \E o \in {OpenTrunc(fs, FilePath)} :
        /\ fs' = o.fs
        /\ ioFail' = (ioFail \/ ~o.ok)
        /\ IF ~o.ok
           THEN /\ Return(FALSE, o.err)
                /\ UNCHANGED touched
           ELSE /\ touched' = touched \cup {FilePath}
                /\ handles' = OpenHandle(handles, "dst", FilePath)
                /\ defers' = Append(defers, Len(handles) + 1)
                /\ pc' = "zip_open"
                /\ UNCHANGED result
  /\ UNCHANGED <<call, archive, idx, calls, fs0, processed, lastWrite>>

\* Lines 200-204: the stream of the entry is opened.
ZipOpenEntry ==
  /\ pc = "zip_open"
  /\ ioFail' = (ioFail \/ archive[idx].fault = "open")
  /\ IF archive[idx].fault = "open"
     THEN Return(FALSE, ErrZipAlgorithm)
     ELSE /\ handles' = OpenHandle(handles, "entry", call.path)
          /\ defers' = Append(defers, Len(handles) + 1)
          /\ pc' = "zip_copy"
          /\ UNCHANGED result
  /\ UNCHANGED <<fs, call, archive, idx, calls, fs0, touched, processed, lastWrite>>

\* Lines 206-209: io.Copy, and on to the next entry.
ZipCopy ==
  /\ pc = "zip_copy"
  /\ fs' = WriteBytes(fs, FilePath, archive[idx].data)
  /\ touched' = touched \cup {FilePath}
  /\ ioFail' = (ioFail \/ archive[idx].fault = "copy")
  /\ IF archive[idx].fault = "copy"
     THEN /\ Return(FALSE, ErrZipChecksum)
          /\ UNCHANGED idx
     ELSE /\ idx' = idx + 1
          /\ pc' = "zip_loop"
          /\ UNCHANGED <<result, handles, defers>>
  /\ UNCHANGED <<call, archive, calls, fs0, processed, lastWrite>>

(***************************************************************************)
(* UnzipGZFile                                                             *)
(***************************************************************************)
\* Lines 216-223: the paths are resolved and the input is opened.
UnzipGZFile(path, output) ==
  \E p \in {GetPath(path)} :
  \E o \in {GetPath(output)} :
  \E r \in {Open(fs, p)} :
     /\ Begin([op |-> "UnzipGZFile", path |-> p, path2 |-> o, content |-> <<>>,
               mode |-> ""])
     /\ ioFail' = ~r.ok
     /\ defers' = IF r.ok THEN <<1>> ELSE <<>>
     /\ handles' = IF r.ok THEN OpenHandle(<<>>, "src", p) ELSE <<>>
     /\ IF ~r.ok
        THEN /\ result' = FlagResult(FALSE, r.err)
             /\ pc' = "idle"
        ELSE pc' = "gz_create"
     /\ UNCHANGED <<fs, archive, idx>>

\* Lines 225-229: the output file is created or truncated.
GzCreate ==
  /\ pc = "gz_create"
  /\ \E o \in {OpenTrunc(fs, call.path2)} :
        /\ fs' = o.fs
        /\ ioFail' = (ioFail \/ ~o.ok)
        /\ IF ~o.ok
           THEN /\ Return(FALSE, o.err)
                /\ UNCHANGED touched
           ELSE /\ touched' = touched \cup {call.path2}
                /\ handles' = OpenHandle(handles, "dst", call.path2)
                /\ defers' = Append(defers, Len(handles) + 1)
                /\ pc' = "gz_reader"
                /\ UNCHANGED result
  /\ UNCHANGED <<call, archive, idx, calls, fs0, processed, lastWrite>>

\* Lines 231-235: the gzip reader is made over the input, reading its header.
GzNewReader ==
  /\ pc = "gz_reader"
  /\ \E r \in {GzipNewReader(fs, call.path)} :
        /\ ioFail' = (ioFail \/ ~r.ok)
        /\ IF ~r.ok
           THEN Return(FALSE, r.err)
           ELSE /\ handles' = OpenHandle(handles, "gzip", call.path)
                /\ defers' = Append(defers, Len(handles) + 1)
                /\ pc' = "gz_copy"
                /\ UNCHANGED result
  /\ UNCHANGED <<fs, call, archive, idx, calls, fs0, touched, processed, lastWrite>>

\* Lines 237-242: io.Copy and the result.
GzCopy ==
  /\ pc = "gz_copy"
  /\ \E r \in {GzipReadAll(fs, call.path)} :
        /\ fs' = WriteBytes(fs, call.path2, r.data)
        /\ ioFail' = (ioFail \/ ~r.ok)
        /\ IF ~r.ok THEN Return(FALSE, r.err) ELSE Return(TRUE, Success)
  /\ touched' = touched \cup {call.path2}
  /\ UNCHANGED <<call, archive, idx, calls, fs0, processed, lastWrite>>

(***************************************************************************)
(* Copyfile                                                                *)
(***************************************************************************)
\* Lines 101-108: the paths are resolved and the source is opened.
Copyfile(src, dst) ==
  \E p \in {GetPath(src)} :
  \E d \in {GetPath(dst)} :
  \E r \in {Open(fs, p)} :
     /\ Begin([op |-> "Copyfile", path |-> p, path2 |-> d, content |-> <<>>,
               mode |-> ""])
     /\ ioFail' = ~r.ok
     /\ defers' = IF r.ok THEN <<1>> ELSE <<>>
     /\ handles' = IF r.ok THEN OpenHandle(<<>>, "src", p) ELSE <<>>
     /\ IF ~r.ok
        THEN /\ result' = FlagResult(FALSE, r.err)
             /\ pc' = "idle"
        ELSE pc' = "copy_create"
     /\ UNCHANGED <<fs, archive, idx>>

\* Lines 110-114: the destination is created or truncated.
CopyCreate ==
  /\ pc = "copy_create"
  /\ \E o \in {OpenTrunc(fs, call.path2)} :
        /\ fs' = o.fs
        /\ ioFail' = (ioFail \/ ~o.ok)
        /\ IF ~o.ok
           THEN /\ Return(FALSE, o.err)
                /\ UNCHANGED touched
           ELSE /\ touched' = touched \cup {call.path2}
                /\ handles' = OpenHandle(handles, "dst", call.path2)
                /\ defers' = Append(defers, Len(handles) + 1)
                /\ pc' = "copy_data"
                /\ UNCHANGED result
  /\ UNCHANGED <<call, archive, idx, calls, fs0, processed, lastWrite>>

\* Lines 116-121: io.Copy and the result.
CopyData ==
  /\ pc = "copy_data"
  /\ \E r \in {ReadAll(fs, call.path)} :
        /\ fs' = WriteBytes(fs, call.path2, r.data)
        /\ ioFail' = (ioFail \/ ~r.ok)
        /\ IF ~r.ok THEN Return(FALSE, r.err) ELSE Return(TRUE, Success)
  /\ touched' = touched \cup {call.path2}
  /\ UNCHANGED <<call, archive, idx, calls, fs0, processed, lastWrite>>

(***************************************************************************)
(* Writefile and Readfile                                                  *)
(***************************************************************************)
\* WriteContent with the error of the decoder dropped.
WriteContentLenient(mode, content) ==
  IF mode = Text THEN [ok |-> TRUE, b |-> content]
  ELSE IF mode = Binary THEN [ok |-> TRUE, b |-> DecodeString(content).data]
  ELSE [ok |-> TRUE, b |-> <<>>]

\* WriteContent with any other mode taken as Text.
WriteContentDefaultText(mode, content) ==
  IF mode = Binary
  THEN LET d == DecodeString(content)
       IN IF d.ok THEN [ok |-> TRUE, b |-> d.data] ELSE [ok |-> FALSE, b |-> <<>>]
  ELSE [ok |-> TRUE, b |-> content]

\* Lines 30-40: the bytes to write, by mode; no case for any other mode.
WriteContent(mode, content) ==
  IF mode = Text THEN [ok |-> TRUE, b |-> content]
  ELSE IF mode = Binary
    THEN LET d == DecodeString(content)
         IN IF d.ok THEN [ok |-> TRUE, b |-> d.data] ELSE [ok |-> FALSE, b |-> <<>>]
  ELSE [ok |-> TRUE, b |-> <<>>]

\* ReadContent with the bytes returned as they are in Binary mode.
ReadContentRaw(mode, b) == IF mode = Text \/ mode = Binary THEN b ELSE <<>>

\* Lines 60-66: the content returned, by mode; no case for any other mode.
ReadContent(mode, b) ==
  IF mode = Text THEN b
  ELSE IF mode = Binary THEN EncodeToString(b)
  ELSE <<>>

\* The frame of an operation that is one call of the os package.
Atomic(c) ==
  /\ pc = "idle"
  /\ call' = c
  /\ fs0' = fs
  /\ processed' = <<>>
  /\ UNCHANGED <<pc, archive, idx, handles, defers, calls>>

\* Lines 23-47
Writefile(path, content, mode) ==
  \E p \in {GetPath(path)} :
  \E m \in {MkdirAll(fs, Dir(p))} :
  \E c \in {WriteContent(mode, content)} :
  \E w \in {WriteFile(m.fs, p, c.b)} :
     /\ Atomic([op |-> "Writefile", path |-> p, path2 |-> <<>>, content |-> content,
                mode |-> mode])
     /\ IF ~m.ok
        THEN /\ result' = FlagResult(FALSE, m.err)
             /\ fs' = fs
        ELSE IF ~c.ok
        THEN /\ result' = FlagResult(FALSE, ErrBase64)
             /\ fs' = m.fs
        ELSE IF ~w.ok
        THEN /\ result' = FlagResult(FALSE, w.err)
             /\ fs' = m.fs
        ELSE /\ result' = FlagResult(TRUE, Success)
             /\ fs' = w.fs
     /\ touched' = (DOMAIN m.fs \ DOMAIN fs) \cup (IF m.ok /\ c.ok /\ w.ok THEN {p} ELSE {})
     /\ ioFail' = (~m.ok \/ (c.ok /\ ~w.ok))
     /\ lastWrite' =
          IF m.ok /\ c.ok /\ w.ok
          THEN (p :> [content |-> content, mode |-> mode]) @@ lastWrite
          ELSE lastWrite

\* Lines 53-68
Readfile(path, mode) ==
  \E p \in {GetPath(path)} :
  \E r \in {ReadFile(fs, p)} :
     /\ Atomic([op |-> "Readfile", path |-> p, path2 |-> <<>>, content |-> <<>>,
                mode |-> mode])
     /\ result' = IF ~r.ok THEN FlagResult(FALSE, r.err)
                  ELSE FlagResult(TRUE, ReadContent(mode, r.data))
     /\ touched' = {}
     /\ ioFail' = ~r.ok
     /\ UNCHANGED <<fs, lastWrite>>

(***************************************************************************)
(* The specifications.  The operations are synchronous and share nothing   *)
(* but the file system, so the operations that hold handles (Spec) and the *)
(* two single-call file operations (FileSpec) are explored apart.          *)
(***************************************************************************)
Next ==
  \/ \E path \in ZipInputs, output \in ZipOutputs : UnzipZIPFile(path, output)
  \/ ZipDone
  \/ ZipCheck
  \/ ZipDirEntry
  \/ ZipMkdirParent
  \/ ZipOpenDst
  \/ ZipOpenEntry
  \/ ZipCopy
  \/ \E path \in GzInputs, output \in GzOutputs : UnzipGZFile(path, output)
  \/ GzCreate
  \/ GzNewReader
  \/ GzCopy
  \/ \E src \in CopySources, dst \in CopyTargets : Copyfile(src, dst)
  \/ CopyCreate
  \/ CopyData

Spec == Init /\ [][Next]_vars

FileInit == Init /\ fs = InitFS(ZipSignature)

FileNext ==
  \/ \E path \in FilePaths, mode \in Modes :
       \E content \in ContentsFor(mode) : Writefile(path, content, mode)
  \/ \E path \in FilePaths \cup {PathT}, mode \in Modes : Readfile(path, mode)

FileSpec == FileInit /\ [][FileNext]_vars

(***************************************************************************)
(* Notions the properties are stated with.                                 *)
(***************************************************************************)
Returned(op) == pc = "idle" /\ call.op = op

\* p lies below the directory d: d is a proper ancestor of p.
StrictlyInside(p, d) == p # d /\ d \in PathChain(p)

\* The candidate path of entry i of the archive being extracted.
EntryPath(i) == Join(call.path2, archive[i].Name)

\* The paths the operation has created, truncated or written so far.
Changed == touched \cup {p \in DOMAIN fs : p \notin DOMAIN fs0 \/ fs[p] # fs0[p]}

\* The target p is as it was when the operation started.
Untouched(p) ==
  /\ p \notin touched
  /\ p \in DOMAIN fs <=> p \in DOMAIN fs0
  /\ p \in DOMAIN fs => fs[p] = fs0[p]

Entries == 1..Len(archive)
InEntry == pc \in {"zip_entry", "zip_create", "zip_open", "zip_copy"}

(***************************************************************************)
(* C1  Zip-Slip containment.                                               *)
(***************************************************************************)
\* C1 as stated: at every point of UnzipZIPFile(archive, D), every path created,
\* truncated or written lies strictly inside the normalized D, and an entry
\* being worked on has passed the containment test.
C1_OnlyInsideOutput ==
  call.op = "UnzipZIPFile" =>
    /\ \A p \in Changed : StrictlyInside(p, call.path2)
    /\ InEntry => StrictlyInside(FilePath, call.path2)

\* C1 amended: every path created, truncated or written lies strictly inside
\* the normalized D, except that D itself and its missing ancestors may be
\* created as directories; an entry being worked on has passed the containment
\* test before any write is made for it.
C1_NothingOutsideOutput ==
  call.op = "UnzipZIPFile" =>
    /\ \A p \in Changed :
         \/ StrictlyInside(p, call.path2)
         \/ /\ p \in PathChain(call.path2)
            /\ p \notin DOMAIN fs0
            /\ IsDirAt(fs, p)
    /\ InEntry => StrictlyInside(FilePath, call.path2)

\* An entry written, then an entry that resolves outside D: the call has
\* returned at it.
C1_Witness ==
  /\ Returned("UnzipZIPFile")
  /\ idx = 2
  /\ Len(archive) = 2
  /\ ~StrictlyInside(EntryPath(2), call.path2)
  /\ StrictlyInside(EntryPath(1), call.path2)
  /\ EntryPath(1) \in touched

(***************************************************************************)
(* C2  An unsafe entry is a hard stop.                                     *)
(***************************************************************************)
\* C2: the step that takes an entry whose candidate path is not strictly inside
\* the output directory (the directory itself included) returns ok=false with
\* "invalid file path" and leaves the file system as it is: nothing is written
\* for that entry or a later one, and what was written before stays.
C2_UnsafeEntryStops ==
  [][(/\ pc = "zip_loop"
      /\ idx <= Len(archive)
      /\ ~StrictlyInside(FilePath, call.path2))
     => (/\ pc' = "idle"
         /\ result' = FlagResult(FALSE, InvalidFilePath)
         /\ fs' = fs
         /\ touched' = touched)]_vars

\* The archive { a/b, a/.. }: a/b is on disk and the call has stopped at the
\* entry that resolves to the output directory itself.
C2_Witness ==
  /\ Returned("UnzipZIPFile")
  /\ result = FlagResult(FALSE, InvalidFilePath)
  /\ Len(archive) = 2
  /\ idx = 2
  /\ EntryPath(2) = call.path2
  /\ IsFileAt(fs, EntryPath(1))
  /\ EntryPath(1) \in touched

(***************************************************************************)
(* C3  An I/O failure on an entry aborts the extraction.                   *)
(***************************************************************************)
\* C3: once a file-system or stream call made for an entry has failed, be it
\* the directory of a directory entry or a step of a file entry, UnzipZIPFile
\* has returned ok=false and works on no later entry.
C3_FailureAborts ==
  (call.op = "UnzipZIPFile" /\ ioFail) => (pc = "idle" /\ ~result.ok)

(***************************************************************************)
(* C4  Handles are released on every exit path.                            *)
(***************************************************************************)
\* C4: when Copyfile, UnzipZIPFile or UnzipGZFile has returned, with success or
\* with any error, every handle the call opened is closed.
C4_HandlesReleased ==
  pc = "idle" => \A i \in DOMAIN handles : ~handles[i].open

\* An error return of UnzipZIPFile with the archive, a destination file and an
\* entry stream opened.
C4_Witness ==
  /\ Returned("UnzipZIPFile")
  /\ ~result.ok
  /\ Len(handles) >= 3

(***************************************************************************)
(* C5  Successful ZIP extraction.                                          *)
(***************************************************************************)
\* The last entry in container order with the candidate path of entry i.
LastWith(i) ==
  CHOOSE j \in Entries :
    /\ EntryPath(j) = EntryPath(i)
    /\ \A k \in Entries : EntryPath(k) = EntryPath(i) => k <= j

WellFormed == \A i \in Entries : StrictlyInside(EntryPath(i), call.path2)

\* C5 as stated: for entries that all resolve inside D and with no I/O step
\* failing, every entry is taken once in container order, the result is
\* ok=true "Success", every directory entry is a directory, every file entry
\* is a file with the data of that entry, and nothing else is created but the
\* ancestor directories.
C5_ExtractsEveryEntry ==
  (Returned("UnzipZIPFile") /\ ~ioFail /\ WellFormed) =>
    /\ result = FlagResult(TRUE, Success)
    /\ processed = [i \in Entries |-> i]
    /\ \A i \in Entries :
         IF archive[i].IsDir THEN IsDirAt(fs, EntryPath(i))
         ELSE IsFileAt(fs, EntryPath(i)) /\ fs[EntryPath(i)].data = archive[i].data
    /\ \A p \in Changed : \E i \in Entries : p \in PathChain(EntryPath(i))

\* C5 amended: for entries that all resolve inside D, D other than the
\* file-system root, and with no I/O step failing, every entry is taken once in
\* container order, the result is ok=true "Success", every directory entry is
\* a directory, every file entry is a file with the data of the last entry, in
\* container order, that resolves to its path, and nothing else is created but
\* the ancestor directories.
C5_ExtractsLastWins ==
  (Returned("UnzipZIPFile") /\ ~ioFail /\ WellFormed /\ call.path2 # Root) =>
    /\ result = FlagResult(TRUE, Success)
    /\ processed = [i \in Entries |-> i]
    /\ \A i \in Entries :
         IF archive[i].IsDir THEN IsDirAt(fs, EntryPath(i))
         ELSE /\ IsFileAt(fs, EntryPath(i))
              /\ fs[EntryPath(i)].data = archive[LastWith(i)].data
    /\ \A p \in Changed : \E i \in Entries : p \in PathChain(EntryPath(i))

\* Two file entries of one path and different data have been extracted.
C5_Witness ==
  /\ Returned("UnzipZIPFile")
  /\ result = FlagResult(TRUE, Success)
  /\ Len(archive) = 2
  /\ EntryPath(1) = EntryPath(2)
  /\ archive[1].data # archive[2].data
  /\ fs[EntryPath(2)].data = archive[2].data

(***************************************************************************)
(* C6  Step order of UnzipGZFile.                                          *)
(***************************************************************************)
BadGzipInput ==
  ~(IsFileAt(fs0, call.path) /\ HasPrefix(fs0[call.path].data, GzipMagic))

\* C6: the output file is created or truncated only once the gzip reader has
\* been made over the opened input; so when the input cannot be opened or has
\* no gzip header, the call returns ok=false and the output path is as it was.
C6_OutputAfterReader ==
  call.op = "UnzipGZFile" =>
    /\ touched # {} => \E i \in DOMAIN handles : handles[i].kind = "gzip"
    /\ (pc = "idle" /\ BadGzipInput) => (~result.ok /\ Untouched(call.path2))

(***************************************************************************)
(* C9  One entry at a time.                                                *)
(***************************************************************************)
\* C9: at every point of UnzipZIPFile at most one destination file handle and
\* at most one entry data stream are open.
C9_OneEntryOpen ==
  call.op = "UnzipZIPFile" =>
    /\ Cardinality(OpenHandles("dst")) <= 1
    /\ Cardinality(OpenHandles("entry")) <= 1

(***************************************************************************)
(* C7  Write-then-read round trip.                                         *)
(***************************************************************************)
Written(p) == p \in DOMAIN lastWrite

\* C7: after a successful Writefile(p, c, m), m Text or Binary and, for Binary,
\* c the encoding of a byte sequence b, the bytes on disk are b in Binary mode,
\* and a Readfile(p, m) returns ok=true with exactly c.
C7_RoundTrip ==
  /\ \A p \in DOMAIN lastWrite :
       (lastWrite[p].mode = Binary /\ lastWrite[p].content \in Base64Contents) =>
         \E b \in ByteSeqs :
           /\ lastWrite[p].content = EncodeToString(b)
           /\ IsFileAt(fs, p)
           /\ fs[p].data = b
  /\ ( /\ Returned("Readfile")
       /\ Written(call.path)
       /\ call.mode \in {Text, Binary}
       /\ lastWrite[call.path].mode = call.mode
       /\ call.mode = Binary => lastWrite[call.path].content \in Base64Contents )
     => result = FlagResult(TRUE, lastWrite[call.path].content)

\* A Binary read has returned the four characters written before it.
C7_Witness ==
  /\ Returned("Readfile")
  /\ call.mode = Binary
  /\ Written(call.path)
  /\ lastWrite[call.path].mode = Binary
  /\ lastWrite[call.path].content \in Base64Contents
  /\ Len(result.msg) = 4
  /\ result.ok

(***************************************************************************)
(* C8  Binary write of invalid base64.                                     *)
(***************************************************************************)
InvalidBinaryWrite ==
  /\ Returned("Writefile")
  /\ call.mode = Binary
  /\ ~DecodeString(call.content).ok

\* C8 as stated: a Binary Writefile of content that is no valid base64 returns
\* ok=false with the error of the decoder, and the target is not created,
\* truncated or modified.
C8_DecodeErrorReturned ==
  InvalidBinaryWrite => (result = FlagResult(FALSE, ErrBase64) /\ Untouched(call.path))

\* C8 amended: it returns ok=false, with the error of the decoder when the
\* directory of the target exists or could be made and with the error of making
\* it otherwise, and the target is not created, truncated or modified.
C8_InvalidBase64KeepsTarget ==
  InvalidBinaryWrite =>
    /\ ~result.ok
    /\ IF \E q \in PathChain(Dir(call.path)) : IsFileAt(fs0, q)
       THEN result.msg = ErrNotDir
       ELSE result.msg = ErrBase64
    /\ Untouched(call.path)

\* The write was refused on a target that existed with content.
C8_Witness ==
  /\ InvalidBinaryWrite
  /\ result = FlagResult(FALSE, ErrBase64)
  /\ IsFileAt(fs0, call.path)
  /\ fs0[call.path].data # <<>>

(***************************************************************************)
(* C10  A mode that is neither Text nor Binary.                            *)
(***************************************************************************)
UnknownMode == call.mode \notin {Text, Binary}

\* C10 as stated: Writefile with such a mode leaves a zero-length file at the
\* target and returns ok=true "Success"; Readfile of an existing file returns
\* ok=true with an empty message.
C10_UnknownModeSucceeds ==
  /\ (Returned("Writefile") /\ UnknownMode) =>
       /\ result = FlagResult(TRUE, Success)
       /\ IsFileAt(fs, call.path)
       /\ fs[call.path].data = <<>>
  /\ (Returned("Readfile") /\ UnknownMode /\ IsFileAt(fs, call.path)) =>
       result = FlagResult(TRUE, <<>>)

\* C10 amended: Writefile with a mode that is neither Text nor Binary leaves a
\* zero-length file at the target and returns ok=true "Success" when the
\* directory of the target exists or can be made and the target is no
\* directory; otherwise it returns ok=false with the error of the file system
\* and leaves the target as it was.  Readfile of an existing file returns
\* ok=true with an empty message.  No result is an error about the mode.
C10_UnknownModeEmptyFile ==
  /\ (Returned("Writefile") /\ UnknownMode) =>
       IF \/ \E q \in PathChain(Dir(call.path)) : IsFileAt(fs0, q)
          \/ IsDirAt(fs0, call.path)
       THEN /\ ~result.ok
            /\ result.msg \in {ErrNotDir, ErrIsDir}
            /\ Untouched(call.path)
       ELSE /\ result = FlagResult(TRUE, Success)
            /\ IsFileAt(fs, call.path)
            /\ fs[call.path].data = <<>>
  /\ (Returned("Readfile") /\ UnknownMode /\ IsFileAt(fs, call.path)) =>
       result = FlagResult(TRUE, <<>>)

\* A write with an unknown mode has emptied a file that had content.
C10_Witness ==
  /\ Returned("Writefile")
  /\ UnknownMode
  /\ result = FlagResult(TRUE, Success)
  /\ IsFileAt(fs0, call.path)
  /\ fs0[call.path].data # <<>>
  /\ fs[call.path].data = <<>>

====
